---- MODULE Spec2Model ----
(***************************************************************************)
(* Model of normalize.py (exam-normalizer): the Document class, the        *)
(* split_documents pass over the scanned page stream, and main's routing   *)
(* of the resulting documents into the "_good" and "_padded" outputs.      *)
(***************************************************************************)
EXTENDS Integers, Sequences, FiniteSets, TLC

(***************************************************************************)
(* Bounds of the explored inputs.                                          *)
(***************************************************************************)
\* short inputs: every marker combination on up to MaxPages pages
MaxPages == 4
\* correct_page_count ranges over -MaxNegTarget..MaxTarget on short inputs
MaxNegTarget == 2
MaxTarget == 4
\* long inputs: up to MaxLongPages pages of which at most one carries a code
MaxLongPages == 14
\* correct_page_count ranges over 1..MaxLongTarget on long inputs
MaxLongTarget == 10

(***************************************************************************)
(* Program constants.                                                      *)
(***************************************************************************)
FRONT_PAGE_CODE == "exam-normalizer-1"
HEAP_PAGE_CODE == "exam-normalizer-2"
BLANK_PAGE_FILENAME == "blank.pdf"
\* Python's None: the image of a blank page, and the result of a failed decode
None == "None"
\* a decoded payload that is neither of the two recognised codes
OTHER_CODE == "some-other-payload"
\* the literals of `self._scans[:12] + 2*padding + self._scans[12:]`
HeapSpliceOffset == 12
HeapSpliceSize == 2

Codes == {None, FRONT_PAGE_CODE, HEAP_PAGE_CODE, OTHER_CODE}
MarkedCodes == Codes \ {None}

VARIABLES
    pc,                 \* main's position
    correct_length,     \* args.correct_page_count[0]
    input_codes,        \* the input file: what a QR scan of each physical page yields
    tmp_files,          \* the temporary page and image files on disk
    pages,              \* main: the page PDFs returned by split
    pages_with_images,  \* main: zip(pages, images)
    next_page,          \* split_documents: position of the for loop, 1-based
    documents,          \* split_documents: the documents emitted so far
    cur_doc,            \* split_documents: the document being accumulated
    docs,               \* main: the list split_documents returned
    good_docs,          \* main
    padded_docs,        \* main
    good_pdfs,          \* main
    padded_pdfs,        \* main
    outputs             \* the output files written by pypdftk.concat: name -> pages

vars == <<pc, correct_length, input_codes, tmp_files, pages, pages_with_images,
          next_page, documents, cur_doc, docs, good_docs, padded_docs,
          good_pdfs, padded_pdfs, outputs>>

(***************************************************************************)
(* Python semantics used by the code.                                      *)
(***************************************************************************)
Min(a, b) == IF a <= b THEN a ELSE b

\* a % b for b # 0: the result has the sign of b
PyMod(a, b) == IF b > 0 THEN a % b ELSE 0 - ((0 - a) % (0 - b))

\* s[lo:hi] with 0 <= lo, 0 <= hi: both ends clamp to len(s)
PySlice(s, lo, hi) ==
    LET l == Min(lo, Len(s))
        h == Min(hi, Len(s))
    IN  IF h <= l THEN <<>> ELSE [j \in 1..(h - l) |-> s[l + j]]

\* lst * k: the empty list when k <= 0
PyRepeat(lst, k) ==
    IF k <= 0 \/ lst = <<>> THEN <<>>
    ELSE [j \in 1..(k * Len(lst)) |-> lst[((j - 1) % Len(lst)) + 1]]

(***************************************************************************)
(* class Document                                                          *)
(***************************************************************************)
Document(target_length) ==
    [scans |-> <<>>, target_length |-> target_length, has_heap_page |-> FALSE]

add_page(doc, page) == [doc EXCEPT !.scans = Append(doc.scans, page)]

length(doc) == Len(doc.scans)

padding_length(doc) == PyMod(0 - length(doc), doc.target_length)

isPadded(doc) == padding_length(doc) > 0

\* faulty variant: the tail of the splice starts one page late
pages_drops_a_page(doc) ==
    LET padding == <<<<BLANK_PAGE_FILENAME, None>>>>
        pgs == IF isPadded(doc) /\ ~doc.has_heap_page
               THEN PySlice(doc.scans, 0, HeapSpliceOffset)
                    \o PyRepeat(padding, HeapSpliceSize)
                    \o PySlice(doc.scans, HeapSpliceOffset + 1, Len(doc.scans))
               ELSE doc.scans
    IN  pgs \o PyRepeat(padding, PyMod(0 - Len(pgs), doc.target_length))

\* faulty variant: the trailing padding is computed from the scans, not from the
\* spliced list
pages_pads_by_scans(doc) ==
    LET padding == <<<<BLANK_PAGE_FILENAME, None>>>>
        pgs == IF isPadded(doc) /\ ~doc.has_heap_page
               THEN PySlice(doc.scans, 0, HeapSpliceOffset)
                    \o PyRepeat(padding, HeapSpliceSize)
                    \o PySlice(doc.scans, HeapSpliceOffset, Len(doc.scans))
               ELSE doc.scans
    IN  pgs \o PyRepeat(padding, padding_length(doc))

\* faulty variant: the splice is made whenever there is no heap page, padded or not
pages_splices_unpadded(doc) ==
    LET padding == <<<<BLANK_PAGE_FILENAME, None>>>>
        pgs == IF ~doc.has_heap_page
               THEN PySlice(doc.scans, 0, HeapSpliceOffset)
                    \o PyRepeat(padding, HeapSpliceSize)
                    \o PySlice(doc.scans, HeapSpliceOffset, Len(doc.scans))
               ELSE doc.scans
    IN  pgs \o PyRepeat(padding, PyMod(0 - Len(pgs), doc.target_length))

\* faulty variant: the splice is never made
pages_never_splices(doc) ==
    LET padding == <<<<BLANK_PAGE_FILENAME, None>>>>
        pgs == doc.scans
    IN  pgs \o PyRepeat(padding, PyMod(0 - Len(pgs), doc.target_length))

\* Document.pages; raises ZeroDivisionError when target_length = 0
doc_pages(doc) ==
    LET padding == <<<<BLANK_PAGE_FILENAME, None>>>>
        pgs == IF isPadded(doc) /\ ~doc.has_heap_page
               THEN PySlice(doc.scans, 0, HeapSpliceOffset)
                    \o PyRepeat(padding, HeapSpliceSize)
                    \o PySlice(doc.scans, HeapSpliceOffset, Len(doc.scans))
               ELSE doc.scans
    IN  pgs \o PyRepeat(padding, PyMod(0 - Len(pgs), doc.target_length))

pdf_pages(doc) == [j \in 1..Len(doc_pages(doc)) |-> doc_pages(doc)[j][1]]

(***************************************************************************)
(* split, convert_to_images, get_qr_code                                   *)
(***************************************************************************)
\* the PDF pdftk writes for physical page i; split sorts them by page number
PdfName(i) == "page_" \o ToString(i) \o ".pdf"

\* the jpg written for page i; Pool.map returns results in input order
ImageName(i) == "tmp" \o ToString(i) \o ".jpg"

\* the scan of an image yields the code of the physical page it was made from
get_qr_code(image_name) ==
    input_codes[CHOOSE i \in 1..Len(input_codes) : ImageName(i) = image_name]

(***************************************************************************)
(* split_documents: one iteration of the for loop                          *)
(***************************************************************************)
\* faulty variant: a front page closes the current document even when it is empty
split_step_emits_empty(emitted, cur, page_tuple, correct) ==
    LET code == get_qr_code(page_tuple[2])
        emitted1 == IF code = FRONT_PAGE_CODE
                    THEN Append(emitted, cur)
                    ELSE emitted
        cur1 == IF code = FRONT_PAGE_CODE
                THEN Document(correct)
                ELSE IF code = HEAP_PAGE_CODE
                     THEN [cur EXCEPT !.has_heap_page = TRUE]
                     ELSE cur
    IN  [documents |-> emitted1, cur_doc |-> add_page(cur1, page_tuple)]

\* faulty variant: the page is added before the marker is looked at, so a cover page
\* ends up closing the previous document
split_step_adds_first(emitted, cur, page_tuple, correct) ==
    LET code == get_qr_code(page_tuple[2])
        cur0 == add_page(cur, page_tuple)
        emitted1 == IF code = FRONT_PAGE_CODE /\ length(cur0) > 0
                    THEN Append(emitted, cur0)
                    ELSE emitted
        cur1 == IF code = FRONT_PAGE_CODE
                THEN Document(correct)
                ELSE IF code = HEAP_PAGE_CODE
                     THEN [cur0 EXCEPT !.has_heap_page = TRUE]
                     ELSE cur0
    IN  [documents |-> emitted1, cur_doc |-> cur1]

\* faulty variant: the fresh document keeps the heap flag of the one it replaces
split_step_keeps_flag(emitted, cur, page_tuple, correct) ==
    LET code == get_qr_code(page_tuple[2])
        emitted1 == IF code = FRONT_PAGE_CODE /\ length(cur) > 0
                    THEN Append(emitted, cur)
                    ELSE emitted
        cur1 == IF code = FRONT_PAGE_CODE
                THEN [Document(correct) EXCEPT !.has_heap_page = cur.has_heap_page]
                ELSE IF code = HEAP_PAGE_CODE
                     THEN [cur EXCEPT !.has_heap_page = TRUE]
                     ELSE cur
    IN  [documents |-> emitted1, cur_doc |-> add_page(cur1, page_tuple)]

split_documents_step(emitted, cur, page_tuple, correct) ==
    LET code == get_qr_code(page_tuple[2])
        emitted1 == IF code = FRONT_PAGE_CODE /\ length(cur) > 0
                    THEN Append(emitted, cur)
                    ELSE emitted
        cur1 == IF code = FRONT_PAGE_CODE
                THEN Document(correct)
                ELSE IF code = HEAP_PAGE_CODE
                     THEN [cur EXCEPT !.has_heap_page = TRUE]
                     ELSE cur
    IN  [documents |-> emitted1, cur_doc |-> add_page(cur1, page_tuple)]

(***************************************************************************)
(* main: routing                                                           *)
(***************************************************************************)
\* faulty variant: a document counts as good when its padded page list has the
\* right length, which it always has
good_docs_by_final_length(ds) ==
    SelectSeq(ds, LAMBDA d : PyMod(0 - Len(doc_pages(d)), d.target_length) = 0)

good_docs_of(ds) == SelectSeq(ds, LAMBDA d : ~isPadded(d))

padded_docs_of(ds) == SelectSeq(ds, LAMBDA d : isPadded(d))

RECURSIVE flatten_pdfs(_)
flatten_pdfs(ds) ==
    IF ds = <<>> THEN <<>> ELSE pdf_pages(Head(ds)) \o flatten_pdfs(Tail(ds))

GOOD_SUFFIX == "_good.pdf"
PADDED_SUFFIX == "_padded.pdf"

(***************************************************************************)
(* Inputs                                                                  *)
(***************************************************************************)
ShortStreams == UNION {[1..n -> Codes] : n \in 0..MaxPages}

\* streams in which at most one page carries a code
LongStreams ==
    UNION {{[i \in 1..n |-> None]}
           \cup {[i \in 1..n |-> IF i = p THEN c ELSE None] :
                     p \in 1..n, c \in MarkedCodes} :
           n \in 0..MaxLongPages}

Inputs == (ShortStreams \X ((0 - MaxNegTarget)..MaxTarget))
          \cup (LongStreams \X (1..MaxLongTarget))

(***************************************************************************)
(* The state machine                                                       *)
(***************************************************************************)
Init ==
    /\ \E inp \in Inputs :
          /\ input_codes = inp[1]
          /\ correct_length = inp[2]
          \* cur_doc is unbound until split_documents is entered
          /\ cur_doc = Document(inp[2])
    /\ pc = "split"
    /\ tmp_files = {}
    /\ pages = <<>>
    /\ pages_with_images = <<>>
    /\ next_page = 1
    /\ documents = <<>>
    /\ docs = <<>>
    /\ good_docs = <<>>
    /\ padded_docs = <<>>
    /\ good_pdfs = <<>>
    /\ padded_pdfs = <<>>
    /\ outputs = <<>>

\* main, line 165
Split ==
    /\ pc = "split"
    /\ pages' = [i \in 1..Len(input_codes) |-> PdfName(i)]
    /\ tmp_files' = tmp_files \cup {PdfName(i) : i \in 1..Len(input_codes)}
    /\ pc' = "convert"
    /\ UNCHANGED <<correct_length, input_codes, pages_with_images, next_page,
                   documents, cur_doc, docs, good_docs, padded_docs,
                   good_pdfs, padded_pdfs, outputs>>

\* pypdftk.split raises
SplitFails ==
    /\ pc = "split"
    /\ pc' = "failed"
    /\ UNCHANGED <<correct_length, input_codes, tmp_files, pages,
                   pages_with_images, next_page, documents, cur_doc, docs,
                   good_docs, padded_docs, good_pdfs, padded_pdfs, outputs>>

\* main, lines 166-167, and the entry of split_documents, lines 130-131
ConvertToImages ==
    /\ pc = "convert"
    /\ pages_with_images' = [i \in 1..Len(pages) |-> <<pages[i], ImageName(i)>>]
    /\ tmp_files' = tmp_files \cup {ImageName(i) : i \in 1..Len(pages)}
    /\ documents' = <<>>
    /\ cur_doc' = Document(correct_length)
    /\ next_page' = 1
    /\ pc' = "split_documents"
    /\ UNCHANGED <<correct_length, input_codes, pages, docs, good_docs,
                   padded_docs, good_pdfs, padded_pdfs, outputs>>

\* a worker of convert_to_images raises
ConvertFails ==
    /\ pc = "convert"
    /\ pc' = "failed"
    /\ UNCHANGED <<correct_length, input_codes, tmp_files, pages,
                   pages_with_images, next_page, documents, cur_doc, docs,
                   good_docs, padded_docs, good_pdfs, padded_pdfs, outputs>>

\* split_documents, lines 132-143
SplitDocumentsStep ==
    /\ pc = "split_documents"
    /\ next_page <= Len(pages_with_images)
    /\ LET r == split_documents_step(documents, cur_doc,
                                     pages_with_images[next_page], correct_length)
       IN  /\ documents' = r.documents
           /\ cur_doc' = r.cur_doc
    /\ next_page' = next_page + 1
    /\ UNCHANGED <<pc, correct_length, input_codes, tmp_files, pages,
                   pages_with_images, docs, good_docs, padded_docs,
                   good_pdfs, padded_pdfs, outputs>>

\* split_documents, lines 144-145, and main, line 169
SplitDocumentsReturn ==
    /\ pc = "split_documents"
    /\ next_page > Len(pages_with_images)
    /\ documents' = Append(documents, cur_doc)
    /\ docs' = Append(documents, cur_doc)
    /\ pc' = "route"
    /\ UNCHANGED <<correct_length, input_codes, tmp_files, pages,
                   pages_with_images, next_page, cur_doc, good_docs,
                   padded_docs, good_pdfs, padded_pdfs, outputs>>

\* main, lines 171-175
Route ==
    /\ pc = "route"
    /\ correct_length # 0
    /\ good_docs' = good_docs_of(docs)
    /\ padded_docs' = padded_docs_of(docs)
    /\ good_pdfs' = flatten_pdfs(good_docs_of(docs))
    /\ padded_pdfs' = flatten_pdfs(padded_docs_of(docs))
    /\ pc' = "concat_good"
    /\ UNCHANGED <<correct_length, input_codes, tmp_files, pages,
                   pages_with_images, next_page, documents, cur_doc, docs,
                   outputs>>

\* main, line 171: doc.isPadded divides by target_length
RouteRaises ==
    /\ pc = "route"
    /\ correct_length = 0
    /\ pc' = "failed"
    /\ UNCHANGED <<correct_length, input_codes, tmp_files, pages,
                   pages_with_images, next_page, documents, cur_doc, docs,
                   good_docs, padded_docs, good_pdfs, padded_pdfs, outputs>>

\* main, lines 177-178
ConcatGood ==
    /\ pc = "concat_good"
    /\ outputs' = IF Len(good_pdfs) > 0
                  THEN Append(outputs, [name |-> GOOD_SUFFIX, content |-> good_pdfs])
                  ELSE outputs
    /\ pc' = "concat_padded"
    /\ UNCHANGED <<correct_length, input_codes, tmp_files, pages,
                   pages_with_images, next_page, documents, cur_doc, docs,
                   good_docs, padded_docs, good_pdfs, padded_pdfs>>

\* pypdftk.concat of the good group raises
ConcatGoodFails ==
    /\ pc = "concat_good"
    /\ Len(good_pdfs) > 0
    /\ pc' = "failed"
    /\ UNCHANGED <<correct_length, input_codes, tmp_files, pages,
                   pages_with_images, next_page, documents, cur_doc, docs,
                   good_docs, padded_docs, good_pdfs, padded_pdfs, outputs>>

\* main, lines 179-180
ConcatPadded ==
    /\ pc = "concat_padded"
    /\ outputs' = IF Len(padded_pdfs) > 0
                  THEN Append(outputs, [name |-> PADDED_SUFFIX, content |-> padded_pdfs])
                  ELSE outputs
    /\ pc' = "cleanup"
    /\ UNCHANGED <<correct_length, input_codes, tmp_files, pages,
                   pages_with_images, next_page, documents, cur_doc, docs,
                   good_docs, padded_docs, good_pdfs, padded_pdfs>>

\* pypdftk.concat of the padded group raises
ConcatPaddedFails ==
    /\ pc = "concat_padded"
    /\ Len(padded_pdfs) > 0
    /\ pc' = "failed"
    /\ UNCHANGED <<correct_length, input_codes, tmp_files, pages,
                   pages_with_images, next_page, documents, cur_doc, docs,
                   good_docs, padded_docs, good_pdfs, padded_pdfs, outputs>>

\* main, lines 183-193; show_summary only prints
Cleanup ==
    /\ pc = "cleanup"
    /\ tmp_files' = tmp_files
                    \ ({pages_with_images[i][1] : i \in 1..Len(pages_with_images)}
                       \cup {pages_with_images[i][2] : i \in 1..Len(pages_with_images)})
    /\ pc' = "done"
    /\ UNCHANGED <<correct_length, input_codes, pages, pages_with_images,
                   next_page, documents, cur_doc, docs, good_docs, padded_docs,
                   good_pdfs, padded_pdfs, outputs>>

Next ==
    \/ Split
    \/ SplitFails
    \/ ConvertToImages
    \/ ConvertFails
    \/ SplitDocumentsStep
    \/ SplitDocumentsReturn
    \/ Route
    \/ RouteRaises
    \/ ConcatGood
    \/ ConcatGoodFails
    \/ ConcatPadded
    \/ ConcatPaddedFails
    \/ Cleanup

Spec == Init /\ [][Next]_vars

(***************************************************************************)
(* Vocabulary of the properties                                            *)
(***************************************************************************)
\* split_documents has returned: its result always holds the terminal document
Emitted == docs # <<>>

FillerPage == <<BLANK_PAGE_FILENAME, None>>

\* the input stream, as the page tuples handed to split_documents
InputStream == [i \in 1..Len(input_codes) |-> <<PdfName(i), ImageName(i)>>]

RECURSIVE ConcatFinal(_)
ConcatFinal(ds) ==
    IF ds = <<>> THEN <<>> ELSE doc_pages(Head(ds)) \o ConcatFinal(Tail(ds))

WithoutFiller(seq) == SelectSeq(seq, LAMBDA p : p # FillerPage)

\* (-n) mod m as the padding formula states it, for n >= 0 and m > 0
NegMod(n, m) == (m - (n % m)) % m

Fill(n) == IF n <= 0 THEN <<>> ELSE [j \in 1..n |-> FillerPage]

\* the padding rule, stated on its own
PaddingPolicy(doc) ==
    LET n == Len(doc.scans)
        m == doc.target_length
        at == IF n < HeapSpliceOffset THEN n ELSE HeapSpliceOffset
    IN  IF NegMod(n, m) = 0 THEN doc.scans
        ELSE IF doc.has_heap_page THEN doc.scans \o Fill(NegMod(n, m))
        ELSE SubSeq(doc.scans, 1, at) \o Fill(HeapSpliceSize)
             \o SubSeq(doc.scans, at + 1, n) \o Fill(NegMod(n + HeapSpliceSize, m))

\* every document split_documents holds: the emitted ones and the current one
AllDocs == {documents[k] : k \in 1..Len(documents)} \cup {cur_doc}

(***************************************************************************)
(* C1: with targetLength > 0, once split_documents has returned, the       *)
(* final page sequences of the emitted documents, concatenated in emission *)
(* order and with the filler pages deleted, are exactly the input stream.  *)
(***************************************************************************)
C1_Conservation ==
    (Emitted /\ correct_length > 0) => WithoutFiller(ConcatFinal(docs)) = InputStream

\* a document longer than the splice offset got the two filler pages spliced
\* into its middle, next to an earlier document
C1_Witness ==
    /\ pc = "done"
    /\ correct_length > 0
    /\ Len(docs) >= 2
    /\ \E k \in 1..Len(docs) :
          /\ length(docs[k]) > HeapSpliceOffset
          /\ isPadded(docs[k])
          /\ ~docs[k].has_heap_page

(***************************************************************************)
(* C2: with targetLength > 0, the final page sequence of every emitted     *)
(* document has a length that is a multiple of targetLength and at least   *)
(* the number of scanned pages.                                            *)
(***************************************************************************)
C2_MultipleOfTarget ==
    (Emitted /\ correct_length > 0) =>
        \A k \in 1..Len(docs) :
            /\ Len(doc_pages(docs[k])) % correct_length = 0
            /\ Len(doc_pages(docs[k])) >= length(docs[k])

\* a spliced document that still needed trailing filler after the splice
C2_Witness ==
    /\ Emitted
    /\ correct_length > 2
    /\ \E k \in 1..Len(docs) :
          /\ isPadded(docs[k])
          /\ ~docs[k].has_heap_page
          /\ (length(docs[k]) + HeapSpliceSize) % correct_length # 0
          /\ Len(doc_pages(docs[k])) > length(docs[k]) + HeapSpliceSize

(***************************************************************************)
(* C3: with targetLength > 0, Document.pages of every document equals the  *)
(* padding rule: the scans unchanged when no padding is needed; the scans  *)
(* plus paddingLength fillers when there is a heap page; otherwise         *)
(* scans[0:12] + 2 fillers + scans[12:] (position clamped to the length)   *)
(* followed by (-(scannedLength + 2)) mod targetLength fillers.            *)
(***************************************************************************)
C3_PagesIsPaddingPolicy ==
    correct_length > 0 => \A d \in AllDocs : doc_pages(d) = PaddingPolicy(d)

\* a document padded at the tail because it has a heap page, next to a
\* document without one that got the splice, clamped to its length
C3_Witness ==
    /\ Emitted
    /\ correct_length > 0
    /\ \E k \in 1..Len(docs) : /\ isPadded(docs[k])
                               /\ docs[k].has_heap_page
                               /\ Len(doc_pages(docs[k])) > length(docs[k])
    /\ \E k \in 1..Len(docs) : /\ isPadded(docs[k])
                               /\ ~docs[k].has_heap_page
                               /\ length(docs[k]) < HeapSpliceOffset
                               /\ Len(doc_pages(docs[k])) > length(docs[k])

(***************************************************************************)
(* C4 as claimed: once split_documents has returned, the number of emitted *)
(* documents equals the number of pages whose code is FRONT_PAGE_CODE.     *)
(***************************************************************************)
NumFront == Cardinality({i \in 1..Len(input_codes) : input_codes[i] = FRONT_PAGE_CODE})

C4_CountEqualsFrontMarkers == Emitted => Len(docs) = NumFront

(***************************************************************************)
(* C4 as amended: once split_documents has returned, the number of emitted *)
(* documents is the number of front-marked pages when the stream begins    *)
(* with a front-marked page, and that number plus one when the stream is   *)
(* empty or begins with any other page.                                    *)
(***************************************************************************)
C4_CountOfDocuments ==
    Emitted =>
        Len(docs) = NumFront
                    + (IF input_codes = <<>> \/ Head(input_codes) # FRONT_PAGE_CODE
                       THEN 1 ELSE 0)

\* pages ahead of the first cover, then two covers
C4_Witness ==
    /\ Emitted
    /\ input_codes # <<>>
    /\ Head(input_codes) # FRONT_PAGE_CODE
    /\ NumFront >= 2

(***************************************************************************)
(* C5 as claimed (Scenario A): targetLength = 10 and nine pages of which   *)
(* only the first carries a code, FRONT_PAGE_CODE, give one document with  *)
(* nine scanned pages and paddingLength 1; the two spliced filler pages    *)
(* follow the whole scanned list; the final sequence has length 12.        *)
(***************************************************************************)
ScenarioA ==
    /\ correct_length = 10
    /\ input_codes = <<FRONT_PAGE_CODE, None, None, None, None, None, None, None, None>>

C5_ScenarioA_Length12 ==
    (ScenarioA /\ Emitted) =>
        /\ Len(docs) = 1
        /\ docs[1].scans = InputStream
        /\ length(docs[1]) = 9
        /\ padding_length(docs[1]) = 1
        /\ SubSeq(doc_pages(docs[1]), 1, 9 + HeapSpliceSize)
              = InputStream \o Fill(HeapSpliceSize)
        /\ Len(doc_pages(docs[1])) = 12

(***************************************************************************)
(* C5 as amended (Scenario A): the same, but the final sequence has length *)
(* 20: the nine scanned pages, the two spliced filler pages, and nine more *)
(* filler pages that bring 11 up to the next multiple of 10.               *)
(***************************************************************************)
C5_ScenarioA_Length20 ==
    (ScenarioA /\ Emitted) =>
        /\ Len(docs) = 1
        /\ docs[1].scans = InputStream
        /\ length(docs[1]) = 9
        /\ padding_length(docs[1]) = 1
        /\ doc_pages(docs[1]) = InputStream \o Fill(HeapSpliceSize) \o Fill(9)
        /\ Len(doc_pages(docs[1])) = 20

C5_Witness == ScenarioA /\ pc = "done"

(***************************************************************************)
(* C6 as claimed: a run with targetLength <= 0 is rejected before any      *)
(* processing: no page is split, rasterized, decoded, grouped or merged,   *)
(* and no output is written.                                               *)
(***************************************************************************)
C6_NonPositiveTargetRejected ==
    correct_length <= 0 =>
        /\ pc \in {"split", "failed"}
        /\ tmp_files = {}
        /\ pages = <<>>
        /\ pages_with_images = <<>>
        /\ next_page = 1
        /\ docs = <<>>
        /\ outputs = <<>>

(***************************************************************************)
(* C7 as claimed: a run that succeeds has written every non-empty output   *)
(* group, and a run that fails has written no output at all.               *)
(***************************************************************************)
Written(name) == \E k \in 1..Len(outputs) : outputs[k].name = name

C7_NoPartialOutput ==
    /\ pc = "done" => /\ good_pdfs # <<>> => Written(GOOD_SUFFIX)
                      /\ padded_pdfs # <<>> => Written(PADDED_SUFFIX)
    /\ pc = "failed" => outputs = <<>>

(***************************************************************************)
(* C8: with targetLength > 0, main puts every document in exactly one of   *)
(* two groups, good iff its paddingLength computed from the scanned pages  *)
(* is 0 and padded otherwise, in emission order within each group, and     *)
(* what is merged for a group is the concatenation, in that order, of the  *)
(* final page sequences of that group's documents; a group whose merged    *)
(* sequence is empty is not written.                                       *)
(***************************************************************************)
RECURSIVE GroupOf(_, _)
GroupOf(ds, wantPadded) ==
    IF ds = <<>> THEN <<>>
    ELSE LET d == Head(ds)
             here == (NegMod(Len(d.scans), d.target_length) > 0) = wantPadded
         IN  (IF here THEN <<d>> ELSE <<>>) \o GroupOf(Tail(ds), wantPadded)

MergedPages(ds) == [j \in 1..Len(ConcatFinal(ds)) |-> ConcatFinal(ds)[j][1]]

Occurs(d, ds) == \E k \in 1..Len(ds) : ds[k] = d

ContentOf(name) == outputs[CHOOSE k \in 1..Len(outputs) : outputs[k].name = name].content

C8_Routing ==
    (pc \in {"concat_good", "concat_padded", "cleanup", "done"} /\ correct_length > 0) =>
        /\ \A k \in 1..Len(docs) : Occurs(docs[k], good_docs) # Occurs(docs[k], padded_docs)
        /\ good_docs = GroupOf(docs, FALSE)
        /\ padded_docs = GroupOf(docs, TRUE)
        /\ good_pdfs = MergedPages(good_docs)
        /\ padded_pdfs = MergedPages(padded_docs)
        /\ pc \in {"cleanup", "done"} =>
              /\ Written(GOOD_SUFFIX) <=> MergedPages(good_docs) # <<>>
              /\ Written(PADDED_SUFFIX) <=> MergedPages(padded_docs) # <<>>
              /\ Written(GOOD_SUFFIX) => ContentOf(GOOD_SUFFIX) = MergedPages(good_docs)
              /\ Written(PADDED_SUFFIX) => ContentOf(PADDED_SUFFIX) = MergedPages(padded_docs)
              /\ Len(outputs) <= 2

\* a good document between two padded ones, both outputs written
C8_Witness ==
    /\ pc = "done"
    /\ correct_length > 0
    /\ Len(docs) = 3
    /\ isPadded(docs[1]) /\ ~isPadded(docs[2]) /\ isPadded(docs[3])
    /\ Written(GOOD_SUFFIX) /\ Written(PADDED_SUFFIX)

(***************************************************************************)
(* C9: a page whose code is FRONT_PAGE_CODE occurs only as the first       *)
(* scanned page of a document, and every document other than the first     *)
(* begins with such a page; two consecutive front-marked pages give a      *)
(* one-page document holding only the first of them; a front-marked page   *)
(* met while the current document is empty emits no document.              *)
(***************************************************************************)
CodeOf(page_tuple) == get_qr_code(page_tuple[2])

\* the documents in emission order, the one being accumulated last
Booklets == IF pc = "split_documents" THEN Append(documents, cur_doc) ELSE documents

C9_FrontOnlyFirst ==
    /\ \A k \in 1..Len(Booklets) :
          /\ \A j \in 2..Len(Booklets[k].scans) :
                CodeOf(Booklets[k].scans[j]) # FRONT_PAGE_CODE
          /\ k > 1 => /\ Booklets[k].scans # <<>>
                      /\ CodeOf(Head(Booklets[k].scans)) = FRONT_PAGE_CODE
    /\ \A j \in 1..(Len(pages_with_images) - 1) :
          (/\ j + 1 < next_page
           /\ input_codes[j] = FRONT_PAGE_CODE
           /\ input_codes[j + 1] = FRONT_PAGE_CODE)
          => \E k \in 1..Len(documents) : documents[k].scans = <<pages_with_images[j]>>

C9_FrontOnEmptyEmitsNothing ==
    (/\ pc = "split_documents"
     /\ next_page <= Len(pages_with_images)
     /\ length(cur_doc) = 0
     /\ CodeOf(pages_with_images[next_page]) = FRONT_PAGE_CODE)
    => documents' = documents

C9_FrontPages == []C9_FrontOnlyFirst /\ [][C9_FrontOnEmptyEmitsNothing]_vars

\* the stream opens with two covers and goes on
C9_Witness ==
    /\ Emitted
    /\ Len(input_codes) >= 3
    /\ input_codes[1] = FRONT_PAGE_CODE
    /\ input_codes[2] = FRONT_PAGE_CODE
    /\ Len(docs) >= 2
    /\ docs[1].scans = <<InputStream[1]>>

(***************************************************************************)
(* C10: at every step of split_documents, a document's has_heap_page is    *)
(* true iff one of its own scanned pages has the code HEAP_PAGE_CODE: the  *)
(* flag of a heap page reaches neither the document before nor the one     *)
(* after, and a fresh document starts with the flag false.                 *)
(***************************************************************************)
HasHeapScan(d) == \E j \in 1..Len(d.scans) : CodeOf(d.scans[j]) = HEAP_PAGE_CODE

C10_HeapFlag == \A d \in AllDocs : d.has_heap_page <=> HasHeapScan(d)

\* a document with a heap page between two documents without one
C10_Witness ==
    /\ Emitted
    /\ Len(docs) >= 3
    /\ ~docs[1].has_heap_page
    /\ docs[2].has_heap_page
    /\ ~docs[3].has_heap_page

====
